---------------------------- MODULE Spec2Model ----------------------------
(***************************************************************************)
(* State-machine example of the repository: the leaf state                 *)
(* CalculateFibonacciSeries (an action-delegating state) and the composite *)
(* CalculateTwoFibonacciSeriesSequentially (two leaves run in sequence).   *)
(*                                                                         *)
(* The classes state_machine::State, state_machine::StateMachine,          *)
(* state_machine::Settings and state_machine_ros::ActionClient are used by *)
(* the repository but not part of it; what the model needs of them is      *)
(* written from the design description.                                    *)
(***************************************************************************)
EXTENDS Integers, Sequences, FiniteSets, TLC

(***************************************************************************)
(* Bounds of the model.                                                    *)
(***************************************************************************)
\* orders range over 0..MaxOrder (0 is the default saveSettingsImpl stores)
MaxOrder == 1
\* an action sends at most MaxFeedback feedback messages per goal
MaxFeedback == 1
\* the orchestrator makes at most MaxCalls execute() calls
MaxCalls == 2

Orders == 0 .. MaxOrder

(***************************************************************************)
(* std::optional<int> and nullable pointers: the empty set is "no value".  *)
(***************************************************************************)
nullopt == {}
Some(v) == {v}
has_value(o) == o # {}
value(o) == CHOOSE v \in o : TRUE
value_or(o, d) == IF has_value(o) THEN value(o) ELSE d

(***************************************************************************)
(* Names.  A leaf is identified by <<owner, state name>>: a standalone     *)
(* leaf is owned by the program that created it (main), a child by its     *)
(* state machine.                                                          *)
(***************************************************************************)
name1_ == "CalculateFibonacciSeries1"
name2_ == "CalculateFibonacciSeries2"
mainName == "CalculateFibonacciSeries"

\* two standalone leaves and two composites: the second of each kind only
\* takes part in the exchange of settings
Standalone == {"s1", "s2"}
Machines == {"m1", "m2"}
Children == {name1_, name2_}
getState(m, n) == <<m, n>>
Leaf(o) == <<o, mainName>>
LeafIds == {Leaf(o) : o \in Standalone} \cup {getState(m, n) : m \in Machines, n \in Children}

\* state_machine::outcomes
success == "success"
preemption == "preemption"
failure == "failure"
NoOutcome == "none"
CanonicalOutcomes == {success, preemption, failure}

VARIABLES
  \* ---- CalculateFibonacciSeries members, per leaf
  order,            \* order_ : std::optional<int>
  orderGiven,       \* the leaves whose order_ has been assigned since construction
  actionClient,     \* actionClient_ : TRUE when the pointer is non-null
  actionFeedback,   \* actionFeedback_ : the feedback's sequence.size(), {} when null
  \* ---- the execution thread inside State::execute()
  phase,            \* per leaf: Idle, PreExecution, MidExecution, PostExecution
  pc,               \* position of the execution thread inside the leaf
  exLeaf,           \* the leaf the execution thread is in
  goalOrder,        \* Goal goal; goal.order
  midOutcome,       \* value returned by runMidExecution()
  outcome,          \* per leaf: value returned by the last execute()
  \* ---- the action client / action server pair of the running leaf
  goalStatus,       \* none, active, succeeded, cancelled, faulted, timeout
  cancelSent,       \* cancelExecution() reached the active goal
  feedbackCount,    \* feedback messages sent for the active goal
  \* ---- the report interface: levels of the entries added in this call
  report,
  \* ---- observations about the current execute() call
  goalsSent,        \* goals sent in this call
  orderChecked,     \* what order_.has_value() gave at the top of runMidExecution
  actionResult,     \* what actionClient_->execute(goal) returned
  preemptInMid,     \* onPreemptionRequest() ran while the goal was active
  lastPreempt,      \* the last onPreemptionRequest(): the leaf it ran on and what
                    \* the machine and its children were doing at that moment
  postRuns,         \* runPostExecution() calls in this call
  calls,            \* execute() calls the orchestrator has made so far (bounded)
  \* ---- CalculateTwoFibonacciSeriesSequentially / StateMachine, of machine m1
  restartOnExecution, \* StateMachine: set by setRestartOnExecution()
  smPc,             \* position of the execution thread inside StateMachine::execute()
  current,          \* the current child
  visited,          \* children executed in this execute() call, in order
  childOutcomes,    \* the outcomes these children returned, in order
  smOutcome,        \* value returned by the last execute() of the machine
  smPreempted,      \* the children that were current when a preemption of the
                    \* machine was requested during this execute() call
  previous,         \* the execute() call before this one: the child it ended in,
                    \* the children it executed, their outcomes and its own
  \* ---- a Settings object handed from saveSettings() to loadSettings()
  settings,         \* the sequence of Parameters
  savedFrom,        \* who saved it: its kind, getOrder() and consistency at the save
  justLoaded,       \* the behaviour that has just loaded it ("none" after a change)
  orderBeforeLoad,  \* getOrder() of that behaviour before the load
  loadReturn,       \* what the last loadSettingsImpl() returned: {} before any
  \* ---- state_machine::Factory and the Context it was made with
  registered,       \* the state types a constructor is registered under
  contextValid,     \* the Context given to the Factory is a valid one
  created,          \* per requested name: what createState() was asked and returned
  \* ---- a thread in getProgress() of the standalone leaf
  gpPc,             \* its position: idle, lock, check, read, done, crashed
  gpSeen,           \* the actionFeedback_ its check found
  gpResult,         \* the Progress it returned
  gpTorn,           \* its read found another actionFeedback_ than its check
  gpIdle,           \* the leaf was in no execute() call at any of its steps ...
  gpCalls,          \* ... and this many execute() calls had been made at its start
  \* ---- main() of calculate_fibonacci_series.cpp
  mainPc,           \* its position
  mainState,        \* auto state: nullptr or the leaf the Factory returned
  mainInconsistencies, \* const auto inconsistencies: {} before line 30, then {the list}
  \* ---- a component that validates the standalone leaf at any time
  inconsistencies,  \* what its last getInconsistencies() returned: {} before any
  validations,      \* the number of its getInconsistencies() calls
  \* ---- a thread in onPreemptionRequest() of the standalone leaf, statement by
  \* ---- statement
  prPc,             \* its position: idle, cancel (the test found a client), crashed
  prReleased,       \* it has called cancelExecution() on a released client
  prEarly           \* the execute() calls (by number) during which its test found
                    \* no client yet

leafVars == <<order, orderGiven, lastPreempt, actionClient, actionFeedback, phase, pc, exLeaf, goalOrder,
              midOutcome, outcome, goalStatus, cancelSent, feedbackCount, report,
              goalsSent, orderChecked, actionResult, preemptInMid, postRuns, calls>>

smVars == <<restartOnExecution, smPc, current, visited, childOutcomes, smOutcome,
           smPreempted, previous>>

cfgVars == <<settings, savedFrom, justLoaded, orderBeforeLoad, loadReturn>>

facVars == <<registered, contextValid, created>>

progVars == <<gpPc, gpSeen, gpResult, gpTorn, gpIdle, gpCalls>>

\* what the operations of a state and of a state machine leave alone
mainVars == <<mainPc, mainState, mainInconsistencies>>

valVars == <<inconsistencies, validations>>

prVars == <<prPc, prReleased, prEarly>>

envVars == <<facVars, progVars, mainVars, valVars, prVars>>

vars == <<leafVars, smVars, cfgVars, envVars>>

(***************************************************************************)
(* CalculateFibonacciSeries: configuration.                                *)
(***************************************************************************)
\* void setOrder(const int order)
setOrder(s, v) ==
  /\ order' = [order EXCEPT ![s] = Some(v)]
  /\ orderGiven' = orderGiven \cup {s}

\* std::optional<int> getOrder() const
getOrder(s) == order[s]

\* faulty variant: a magic number instead of the optional, 0 standing for "not set"
getInconsistenciesImplZeroIsUnset(s) ==
  IF value_or(order[s], 0) = 0 THEN <<"The order has not been set.">> ELSE <<>>

\* getInconsistenciesImpl(): the list of inconsistencies (their number of entries
\* is what matters; the message names the state)
getInconsistenciesImpl(s) ==
  IF ~has_value(order[s]) THEN <<"The order has not been set.">> ELSE <<>>

\* faulty variant: a validation that repairs what it finds, giving an unset
\* order the default 0
getInconsistenciesRepairing(s) ==
  /\ inconsistencies' = {getInconsistenciesImpl(s)}
  /\ IF has_value(order[s]) THEN UNCHANGED <<order, orderGiven>> ELSE setOrder(s, 0)

\* a call of getInconsistencies(): getInconsistenciesImpl() const returns the list
\* and writes no member
getInconsistencies(s) ==
  /\ inconsistencies' = {getInconsistenciesImpl(s)}
  /\ UNCHANGED <<order, orderGiven>>

(***************************************************************************)
(* State::execute() of a leaf: runPreExecution, runMidExecution,           *)
(* runPostExecution, then the outcome of runMidExecution is returned.      *)
(***************************************************************************)
ExecVarsUnchangedByConfig ==
  UNCHANGED <<lastPreempt, actionClient, actionFeedback, phase, pc, exLeaf, goalOrder, midOutcome,
              outcome, goalStatus, cancelSent, feedbackCount, report, goalsSent,
              orderChecked, actionResult, preemptInMid, postRuns, calls>>

SetOrder(s, v) ==
  /\ setOrder(s, v)
  /\ ExecVarsUnchangedByConfig
  /\ UNCHANGED <<smVars, cfgVars, envVars>>

\* entry of State::execute(): the execution thread enters the leaf
StateExecute(s) ==
  /\ pc = "idle"
  /\ phase[s] = "Idle"
  /\ phase' = [phase EXCEPT ![s] = "PreExecution"]
  /\ pc' = "pre_reset"
  /\ exLeaf' = s
  /\ outcome' = [outcome EXCEPT ![s] = NoOutcome]
  /\ midOutcome' = NoOutcome
  /\ report' = <<>>
  /\ goalsSent' = 0
  /\ orderChecked' = "unchecked"
  /\ actionResult' = "none"
  /\ preemptInMid' = FALSE
  /\ postRuns' = 0
  /\ UNCHANGED <<order, orderGiven, lastPreempt, actionClient, actionFeedback, goalOrder, goalStatus,
                 cancelSent, feedbackCount>>

\* main(): state->execute()
Execute(s) ==
  /\ calls < MaxCalls
  /\ calls' = calls + 1
  /\ StateExecute(s)
  /\ UNCHANGED <<smVars, cfgVars, envVars>>

\* runPreExecution(), first block: actionFeedback_.reset() under std::shared_lock,
\* which does not wait for a reader that holds the mutex in shared mode
RunPreExecutionReset(s) ==
  /\ UNCHANGED <<smVars, cfgVars, envVars>>
  /\ pc = "pre_reset" /\ exLeaf = s
  /\ actionFeedback' = [actionFeedback EXCEPT ![s] = {}]
  /\ pc' = "pre_client"
  /\ UNCHANGED <<order, orderGiven, lastPreempt, actionClient, phase, exLeaf, goalOrder, midOutcome, outcome,
                 goalStatus, cancelSent, feedbackCount, report, goalsSent,
                 orderChecked, actionResult, preemptInMid, postRuns, calls>>

\* the handle runPreExecution() stores: a new ActionClient
NewActionClient == TRUE

\* runPreExecution(), second block: the action client and its feedback callback;
\* State::execute() goes on to runMidExecution()
RunPreExecutionClient(s) ==
  /\ UNCHANGED <<smVars, cfgVars, envVars>>
  /\ pc = "pre_client" /\ exLeaf = s
  /\ actionClient' = [actionClient EXCEPT ![s] = NewActionClient]
  /\ goalStatus' = "none"
  /\ cancelSent' = FALSE
  /\ feedbackCount' = 0
  /\ phase' = [phase EXCEPT ![s] = "MidExecution"]
  /\ pc' = "mid_check"
  /\ UNCHANGED <<order, orderGiven, lastPreempt, actionFeedback, exLeaf, goalOrder, midOutcome, outcome,
                 report, goalsSent, orderChecked, actionResult, preemptInMid,
                 postRuns, calls>>

\* faulty variant: the check of the order left out, the goal built with
\* order_.value_or(0)
RunMidExecutionCheckNoEarlyReturn(s) ==
  /\ UNCHANGED <<smVars, cfgVars, envVars>>
  /\ pc = "mid_check" /\ exLeaf = s
  /\ report' = Append(report, "DEBUG")
  /\ goalOrder' = value_or(order[s], 0)
  /\ orderChecked' = IF has_value(order[s]) THEN "set" ELSE "unset"
  /\ pc' = "mid_send"
  /\ UNCHANGED <<midOutcome, phase>>
  /\ UNCHANGED <<order, orderGiven, lastPreempt, actionClient, actionFeedback, exLeaf, outcome, goalStatus,
                 cancelSent, feedbackCount, goalsSent, actionResult, preemptInMid,
                 postRuns, calls>>

\* runMidExecution(), lines 83-95: the check of the order, the report entry and
\* the goal
RunMidExecutionCheck(s) ==
  /\ UNCHANGED <<smVars, cfgVars, envVars>>
  /\ pc = "mid_check" /\ exLeaf = s
  /\ IF ~has_value(order[s])
       THEN /\ report' = Append(report, "ERROR")
            /\ midOutcome' = failure
            /\ orderChecked' = "unset"
            /\ phase' = [phase EXCEPT ![s] = "PostExecution"]
            /\ pc' = "post"
            /\ UNCHANGED goalOrder
       ELSE /\ report' = Append(report, "DEBUG")
            /\ goalOrder' = value(order[s])
            /\ orderChecked' = "set"
            /\ pc' = "mid_send"
            /\ UNCHANGED <<midOutcome, phase>>
  /\ UNCHANGED <<order, orderGiven, lastPreempt, actionClient, actionFeedback, exLeaf, outcome, goalStatus,
                 cancelSent, feedbackCount, goalsSent, actionResult, preemptInMid,
                 postRuns, calls>>

\* runMidExecution(), line 98: actionClient_->execute(goal) sends the goal ...
RunMidExecutionSend(s) ==
  /\ UNCHANGED <<smVars, cfgVars, envVars>>
  /\ pc = "mid_send" /\ exLeaf = s
  /\ goalStatus' = "active"
  /\ goalsSent' = goalsSent + 1
  /\ pc' = "mid_wait"
  /\ UNCHANGED <<order, orderGiven, lastPreempt, actionClient, actionFeedback, phase, exLeaf, goalOrder,
                 midOutcome, outcome, cancelSent, feedbackCount, report,
                 orderChecked, actionResult, preemptInMid, postRuns, calls>>

\* faulty variant: the branch for a cancelled goal left out
OutcomeOfGoalCancelledAsFailure(r) ==
  IF r = "succeeded" THEN success ELSE failure

\* faulty variant: a cancelled goal handed on under the action's own name
OutcomeOfGoalRaw(r) ==
  IF r = "succeeded" THEN success
  ELSE IF r = "cancelled" THEN "cancelled"
  ELSE failure

\* lines 101, 110, 116: the outcome of the state from the outcome of the goal
OutcomeOfGoal(r) ==
  IF r = "succeeded" THEN success
  ELSE IF r = "cancelled" THEN preemption
  ELSE failure

\* faulty variant: a failed goal reported like a cancelled one
LevelOfGoalFailureAsDebug(r) ==
  IF r = "succeeded" THEN "INFO" ELSE "DEBUG"

\* lines 104-108, 112, 118: the level of the report entry added for the outcome
LevelOfGoal(r) ==
  IF r = "succeeded" THEN "INFO"
  ELSE IF r = "cancelled" THEN "DEBUG"
  ELSE "ERROR"

TerminalGoalStatus == {"succeeded", "cancelled", "faulted", "timeout"}

\* faulty variant: the outcome of a goal that was asked to cancel is replaced
\* by preemption, whatever the goal ended with
RunMidExecutionResultPreemptionSubstituted(s) ==
  /\ UNCHANGED <<smVars, cfgVars, envVars>>
  /\ pc = "mid_wait" /\ exLeaf = s
  /\ goalStatus \in TerminalGoalStatus
  /\ actionResult' = goalStatus
  /\ report' = Append(report, LevelOfGoal(goalStatus))
  /\ midOutcome' = IF cancelSent THEN preemption ELSE OutcomeOfGoal(goalStatus)
  /\ phase' = [phase EXCEPT ![s] = "PostExecution"]
  /\ pc' = "post"
  /\ UNCHANGED <<order, orderGiven, lastPreempt, actionClient, actionFeedback, exLeaf, goalOrder, outcome,
                 goalStatus, cancelSent, feedbackCount, goalsSent, orderChecked,
                 preemptInMid, postRuns, calls>>

\* ... and blocks until the goal has an outcome; lines 100-122 analyse it
RunMidExecutionResult(s) ==
  /\ UNCHANGED <<smVars, cfgVars, envVars>>
  /\ pc = "mid_wait" /\ exLeaf = s
  /\ goalStatus \in TerminalGoalStatus
  /\ actionResult' = goalStatus
  /\ report' = Append(report, LevelOfGoal(goalStatus))
  /\ midOutcome' = OutcomeOfGoal(goalStatus)
  /\ phase' = [phase EXCEPT ![s] = "PostExecution"]
  /\ pc' = "post"
  /\ UNCHANGED <<order, orderGiven, lastPreempt, actionClient, actionFeedback, exLeaf, goalOrder, outcome,
                 goalStatus, cancelSent, feedbackCount, goalsSent, orderChecked,
                 preemptInMid, postRuns, calls>>

\* faulty variant: the handle is kept
ResetActionClientKept == TRUE

\* the handle after runPostExecution(): actionClient_.reset()
ResetActionClient == FALSE

\* runPostExecution()
RunPostExecution(s) ==
  /\ UNCHANGED <<smVars, cfgVars, envVars>>
  /\ pc = "post" /\ exLeaf = s
  /\ actionClient' = [actionClient EXCEPT ![s] = ResetActionClient]
  /\ postRuns' = postRuns + 1
  /\ pc' = "return"
  /\ UNCHANGED <<order, orderGiven, lastPreempt, actionFeedback, phase, exLeaf, goalOrder, midOutcome, outcome,
                 goalStatus, cancelSent, feedbackCount, report, goalsSent,
                 orderChecked, actionResult, preemptInMid, calls>>

\* State::execute() returns the outcome of runMidExecution()
Return(s) ==
  /\ UNCHANGED <<smVars, cfgVars, envVars>>
  /\ pc = "return" /\ exLeaf = s
  /\ outcome' = [outcome EXCEPT ![s] = midOutcome]
  /\ phase' = [phase EXCEPT ![s] = "Idle"]
  /\ pc' = "idle"
  /\ UNCHANGED <<order, orderGiven, lastPreempt, actionClient, actionFeedback, exLeaf, goalOrder, midOutcome,
                 goalStatus, cancelSent, feedbackCount, report, goalsSent,
                 orderChecked, actionResult, preemptInMid, postRuns, calls>>

(***************************************************************************)
(* getProgress(), called from another thread.  State::getProgress() is     *)
(* taken to return what getProgressImpl() returns.  A Progress is a set:   *)
(* the empty set is the default, empty Progress.                           *)
(***************************************************************************)
DefaultProgress == {}
Progress(goal, done) == {[goal |-> goal, done |-> done]}

\* getProgressImpl() holds actionFeedbackMutex_ with std::shared_lock from its
\* check to its return
SharedLockHeldByReader == gpPc \in {"check", "read"}

InitProgVars ==
  /\ gpPc = "idle"
  /\ gpSeen = {}
  /\ gpResult = DefaultProgress
  /\ gpTorn = FALSE
  /\ gpIdle = TRUE
  /\ gpCalls = 0

ReaderLeavesAlone ==
  UNCHANGED <<leafVars, smVars, cfgVars, facVars, mainVars, valVars, prVars>>

\* getProgressImpl(), line 143: state_machine::Progress progress
GetProgress(s) ==
  /\ gpPc \in {"idle", "done"}
  /\ gpPc' = "lock"
  /\ gpResult' = DefaultProgress
  /\ gpSeen' = {}
  /\ gpTorn' = FALSE
  /\ gpIdle' = (phase[s] = "Idle")
  /\ gpCalls' = calls
  /\ ReaderLeavesAlone

\* line 144: std::shared_lock lock(actionFeedbackMutex_); the writer that takes
\* the mutex exclusively, the feedback callback, holds it for one step only
GetProgressLock(s) ==
  /\ gpPc = "lock"
  /\ gpPc' = "check"
  /\ gpIdle' = (gpIdle /\ phase[s] = "Idle")
  /\ UNCHANGED <<gpSeen, gpResult, gpTorn, gpCalls>>
  /\ ReaderLeavesAlone

\* line 145: if (order_.has_value() && actionFeedback_ != nullptr)
GetProgressCheck(s) ==
  /\ gpPc = "check"
  /\ gpIdle' = (gpIdle /\ phase[s] = "Idle")
  /\ IF has_value(order[s]) /\ actionFeedback[s] # {}
       THEN gpPc' = "read" /\ gpSeen' = actionFeedback[s]
       ELSE gpPc' = "done" /\ gpSeen' = {}
  /\ UNCHANGED <<gpResult, gpTorn, gpCalls>>
  /\ ReaderLeavesAlone

\* lines 147-149: setGoal(order_.value()), setDone(actionFeedback_->sequence.size());
\* line 151: return progress
GetProgressRead(s) ==
  /\ gpPc = "read"
  /\ actionFeedback[s] = gpSeen
  /\ gpResult' = Progress(value(order[s]), value(actionFeedback[s]))
  /\ gpPc' = "done"
  /\ gpIdle' = (gpIdle /\ phase[s] = "Idle")
  /\ UNCHANGED <<gpSeen, gpTorn, gpCalls>>
  /\ ReaderLeavesAlone

\* the same lines when actionFeedback_ was reset since the check: the pointer read
\* is null, or is read while it is written; the call ends in a crash or returns a
\* Progress with any number as done
GetProgressReadTorn(s) ==
  /\ gpPc = "read"
  /\ actionFeedback[s] # gpSeen
  /\ gpTorn' = TRUE
  /\ \/ gpPc' = "crashed" /\ UNCHANGED gpResult
     \/ /\ gpPc' = "done"
        /\ \E d \in 0 .. MaxFeedback : gpResult' = Progress(value(order[s]), d)
  /\ gpIdle' = (gpIdle /\ phase[s] = "Idle")
  /\ UNCHANGED <<gpSeen, gpCalls>>
  /\ ReaderLeavesAlone

(***************************************************************************)
(* Other threads.                                                          *)
(***************************************************************************)
\* ActionClient::cancelExecution(): asks the server to cancel the active goal
cancelExecution ==
  cancelSent' = (cancelSent \/ goalStatus = "active")

\* faulty variant: the request is not passed on to the action client
onPreemptionRequestDropped(s) ==
  UNCHANGED <<cancelSent, actionClient>>

\* faulty variant: the handle is released by the requesting thread
onPreemptionRequestReleasesHandle(s) ==
  /\ IF actionClient[s] THEN cancelExecution ELSE UNCHANGED cancelSent
  /\ actionClient' = [actionClient EXCEPT ![s] = FALSE]

\* onPreemptionRequest()
onPreemptionRequest(s) ==
  /\ IF actionClient[s] THEN cancelExecution ELSE UNCHANGED cancelSent
  /\ UNCHANGED actionClient

NoPreemptionRequest ==
  [target |-> {}, current |-> "", smPc |-> "", busyOthers |-> {}, tick |-> FALSE]

\* onPreemptionRequest() of leaf s runs: the call takes no lock and waits for
\* nothing
RequestPreemption(s) ==
  /\ onPreemptionRequest(s)
  /\ preemptInMid' = (preemptInMid \/ (exLeaf = s /\ pc = "mid_wait" /\ goalStatus = "active"))
  /\ lastPreempt' = [target |-> {s}, current |-> current, smPc |-> smPc,
                     busyOthers |-> {l \in LeafIds \ {s} : phase[l] # "Idle"},
                     tick |-> ~lastPreempt.tick]
  /\ UNCHANGED <<order, orderGiven, actionFeedback, phase, pc, exLeaf, goalOrder,
                 midOutcome, outcome, goalStatus, feedbackCount, report, goalsSent,
                 orderChecked, actionResult, postRuns, calls>>

\* a thread calls onPreemptionRequest() of leaf s
OnPreemptionRequest(s) ==
  /\ UNCHANGED <<smVars, cfgVars, envVars>>
  /\ RequestPreemption(s)

\* the feedback callback set in runPreExecution(): actionFeedback_ = feedback
FeedbackCb(s, n) ==
  actionFeedback' = [actionFeedback EXCEPT ![s] = Some(n)]

\* the action server publishes feedback for the active goal; the callback takes
\* actionFeedbackMutex_ with std::unique_lock, so it waits for a reader to leave
ServerFeedback ==
  /\ UNCHANGED <<smVars, cfgVars, envVars>>
  /\ goalStatus = "active"
  /\ ~SharedLockHeldByReader
  /\ feedbackCount < MaxFeedback
  /\ feedbackCount' = feedbackCount + 1
  /\ FeedbackCb(exLeaf, feedbackCount + 1)
  /\ UNCHANGED <<order, orderGiven, lastPreempt, actionClient, phase, pc, exLeaf, goalOrder, midOutcome, outcome,
                 goalStatus, cancelSent, report, goalsSent, orderChecked, actionResult,
                 preemptInMid, postRuns, calls>>

\* the goal ends: the server succeeds or aborts, the client times out, the server
\* cancels the goal on request, or cancels it because another goal displaced it.
\* With honour, a server that was asked to cancel answers with nothing else.
GoalEnds(r, honour) ==
  /\ UNCHANGED <<smVars, cfgVars, envVars>>
  /\ goalStatus = "active"
  /\ r \in TerminalGoalStatus
  /\ (honour /\ cancelSent) => r = "cancelled"
  /\ goalStatus' = r
  /\ UNCHANGED <<order, orderGiven, lastPreempt, actionClient, actionFeedback, phase, pc, exLeaf, goalOrder,
                 midOutcome, outcome, cancelSent, feedbackCount, report, goalsSent,
                 orderChecked, actionResult, preemptInMid, postRuns, calls>>

ServerSucceeds(honour) == goalStatus = "active" /\ GoalEnds("succeeded", honour)
ServerAborts(honour) == goalStatus = "active" /\ GoalEnds("faulted", honour)
ClientTimeout(honour) == goalStatus = "active" /\ GoalEnds("timeout", honour)
ServerCancels == cancelSent /\ GoalEnds("cancelled", TRUE)
ServerDisplaces(honour) == ~cancelSent /\ GoalEnds("cancelled", honour)

(***************************************************************************)
(* state_machine::Settings: an ordered sequence of Parameters              *)
(* {name, type, value}.                                                    *)
(***************************************************************************)
Parameter(n, ty, v) == [name |-> n, type |-> ty, value |-> v]
NoSettings == <<>>
addParameter(st, p) == Append(st, p)
parameterIsRegistered(st, n) == \E i \in 1 .. Len(st) : st[i].name = n
getParameter(st, n) ==
  st[CHOOSE i \in 1 .. Len(st) :
       st[i].name = n /\ \A j \in 1 .. (i - 1) : st[j].name # n]
\* Parameter::getValue().as<int>()
as_int(p) == p.value

(***************************************************************************)
(* CalculateFibonacciSeries: settings.                                     *)
(***************************************************************************)
\* saveSettingsImpl(settings)
saveSettingsImpl(s, st) ==
  addParameter(st, Parameter("order", "int", value_or(order[s], 0)))

\* faulty variant: a load that keeps an order that is already set
loadSettingsImplKeepsSetOrder(s, st) ==
  /\ IF parameterIsRegistered(st, "order") /\ ~has_value(order[s])
       THEN /\ order' = [order EXCEPT ![s] = Some(as_int(getParameter(st, "order")))]
            /\ orderGiven' = orderGiven \cup {s}
       ELSE UNCHANGED <<order, orderGiven>>
  /\ loadReturn' = {TRUE}

\* faulty variant: settings without the parameter "order" are refused
loadSettingsImplOrderRequired(s, st) ==
  /\ IF parameterIsRegistered(st, "order")
       THEN /\ order' = [order EXCEPT ![s] = Some(as_int(getParameter(st, "order")))]
            /\ orderGiven' = orderGiven \cup {s}
       ELSE UNCHANGED <<order, orderGiven>>
  /\ loadReturn' = {parameterIsRegistered(st, "order")}

\* loadSettingsImpl(settings): the order when the settings hold one; it
\* returns true
loadSettingsImpl(s, st) ==
  /\ IF parameterIsRegistered(st, "order")
       THEN /\ order' = [order EXCEPT ![s] = Some(as_int(getParameter(st, "order")))]
            /\ orderGiven' = orderGiven \cup {s}
       ELSE UNCHANGED <<order, orderGiven>>
  /\ loadReturn' = {TRUE}

(***************************************************************************)
(* CalculateTwoFibonacciSeriesSequentially.                                *)
(***************************************************************************)
\* faulty variant: the order is forwarded to the first child only
Two_setOrderFirstChildOnly(m, v) ==
  /\ order' = [order EXCEPT ![getState(m, name1_)] = Some(v)]
  /\ orderGiven' = orderGiven \cup {getState(m, name1_)}

\* setOrder(order): forwarded to both children
Two_setOrder(m, v) ==
  /\ order' = [order EXCEPT ![getState(m, name1_)] = Some(v),
                            ![getState(m, name2_)] = Some(v)]
  /\ orderGiven' = orderGiven \cup {getState(m, name1_), getState(m, name2_)}

\* getOrder(): the order of the first child
Two_getOrder(m) == getOrder(getState(m, name1_))

\* faulty variant: the machine continues from where it left off
Two_restartOnExecutionOff == FALSE

\* constructImpl(): setRestartOnExecution(true)
Two_restartOnExecution == TRUE

\* constructImpl(): setOutcomes({success}); preemption and failure are outcomes
\* of every state
Two_Outcomes == {success} \cup {preemption, failure}

\* a transition as addState() is given it: {outcome of the child, what follows}
Transition(o, n) == [outcome |-> o, next |-> n]

\* the table addState() keeps for a child: per outcome named in the list, what
\* follows it
TransitionTable(list) ==
  [o \in {list[i].outcome : i \in 1 .. Len(list)} |->
     list[CHOOSE i \in 1 .. Len(list) :
            list[i].outcome = o /\ \A j \in 1 .. (i - 1) : list[j].outcome # o].next]

\* faulty variant: no transition for a failure of state 1
TransitionListOfState1WithoutFailure ==
  <<Transition(success, name2_), Transition(preemption, preemption)>>

\* constructImpl(): the transitions written in addState(std::move(state1), ...)
TransitionListOfState1 ==
  <<Transition(success, name2_), Transition(preemption, preemption),
    Transition(failure, failure)>>

\* faulty variant: a failure of state 2 starts over at state 1
TransitionListOfState2FailureRestarts ==
  <<Transition(success, success), Transition(preemption, preemption),
    Transition(failure, name1_)>>

\* constructImpl(): the transitions written in addState(std::move(state2), ...)
TransitionListOfState2 ==
  <<Transition(success, success), Transition(preemption, preemption),
    Transition(failure, failure)>>

\* the transitions written for a child
TransitionList(n) ==
  IF n = name1_ THEN TransitionListOfState1 ELSE TransitionListOfState2

\* faulty variant: state 2 follows a failure of state 1 too
TransitionsOfState1FailureContinues ==
  [o \in CanonicalOutcomes |->
     IF o = success THEN name2_ ELSE IF o = preemption THEN preemption ELSE name2_]

\* constructImpl(): the transitions given to addState() for state 1 ...
TransitionsOfState1 == TransitionTable(TransitionListOfState1)

\* faulty variant: the success of state 2 mapped to failure
TransitionsOfState2SuccessFails ==
  [o \in CanonicalOutcomes |->
     IF o = success THEN failure ELSE IF o = preemption THEN preemption ELSE failure]

\* ... and for state 2
TransitionsOfState2 == TransitionTable(TransitionListOfState2)

\* faulty variant: a table that is not fixed, the second call finds the success
\* of state 2 mapped to failure
TransitionsChangingBetweenCalls(n) ==
  IF n = name1_ THEN TransitionsOfState1
  ELSE IF calls > 1 THEN TransitionsOfState2SuccessFails
  ELSE TransitionsOfState2

\* the transition table the two addState() calls build
Transitions(n) == IF n = name1_ THEN TransitionsOfState1 ELSE TransitionsOfState2

\* constructImpl(): setDefaultInitialState(name1_)
defaultInitialState == name1_

\* faulty variant: 0 stored when the order is unset, as the leaf does
Two_saveSettingsImplDefaultZero(m, st) ==
  addParameter(st, Parameter("order", "int", value_or(Two_getOrder(m), 0)))

\* saveSettingsImpl(settings): the order only when it is set
Two_saveSettingsImpl(m, st) ==
  IF has_value(Two_getOrder(m))
    THEN addParameter(st, Parameter("order", "int", value(Two_getOrder(m))))
    ELSE st

\* loadSettingsImpl(settings): setOrder() when the settings hold an order; it
\* returns true
Two_loadSettingsImpl(m, st) ==
  /\ IF parameterIsRegistered(st, "order")
       THEN Two_setOrder(m, as_int(getParameter(st, "order")))
       ELSE UNCHANGED <<order, orderGiven>>
  /\ loadReturn' = {TRUE}

\* StateMachine::getInconsistencies(): those of the children
Two_getInconsistencies(m) ==
  getInconsistenciesImpl(getState(m, name1_)) \o getInconsistenciesImpl(getState(m, name2_))

(***************************************************************************)
(* StateMachine::execute(): walk the transition table from the current     *)
(* child until an entry names an outcome of the machine.                   *)
(***************************************************************************)
\* faulty variant: every call starts at the default initial state
InitialStateAlwaysDefault(restart, cur) == defaultInitialState

\* the child a call starts at: the default initial state when the machine
\* restarts on execution, else the child the previous call ended in
InitialState(restart, cur) == IF restart THEN defaultInitialState ELSE cur

\* entry of execute()
SMExecute(m) ==
  /\ smPc = "idle" /\ pc = "idle"
  /\ calls < MaxCalls
  /\ calls' = calls + 1
  /\ smPreempted' = {}
  /\ previous' = [active |-> current, outcome |-> smOutcome,
                  visited |-> visited, childOutcomes |-> childOutcomes]
  /\ current' = InitialState(restartOnExecution, current)
  /\ visited' = <<>>
  /\ childOutcomes' = <<>>
  /\ smOutcome' = NoOutcome
  /\ smPc' = "select"
  /\ UNCHANGED <<order, orderGiven, lastPreempt, actionClient, actionFeedback, phase, pc, exLeaf, goalOrder,
                 midOutcome, outcome, goalStatus, cancelSent, feedbackCount, report,
                 goalsSent, orderChecked, actionResult, preemptInMid, postRuns>>
  /\ UNCHANGED <<restartOnExecution, cfgVars, envVars>>

\* execute() of the current child is entered
SMRunChild(m) ==
  /\ smPc = "select"
  /\ StateExecute(getState(m, current))
  /\ visited' = Append(visited, current)
  /\ smPc' = "child"
  /\ UNCHANGED <<calls, restartOnExecution, current, childOutcomes, smOutcome,
                 smPreempted, previous>>
  /\ UNCHANGED <<cfgVars, envVars>>

\* the child has returned: look up its outcome in its transitions
SMTransition(m) ==
  /\ smPc = "child" /\ pc = "idle"
  /\ LET o == outcome[getState(m, current)]
         next == Transitions(current)[o]
     IN /\ childOutcomes' = Append(childOutcomes, o)
        /\ IF next \in Children
             THEN /\ current' = next
                  /\ smPc' = "select"
                  /\ UNCHANGED smOutcome
             ELSE /\ smOutcome' = next
                  /\ smPc' = "idle"
                  /\ UNCHANGED current
  /\ UNCHANGED <<restartOnExecution, visited, smPreempted, previous>>
  /\ UNCHANGED <<leafVars, cfgVars, envVars>>

\* faulty variant: the request always goes to the first child
PreemptionTargetFirstChild(m) == getState(m, name1_)

\* the child a preemption request on the machine is forwarded to
PreemptionTarget(m) == getState(m, current)

\* a preemption request on the machine goes to the child being executed
SMPreempt(m) ==
  /\ smPc = "child"
  /\ RequestPreemption(PreemptionTarget(m))
  /\ smPreempted' = smPreempted \cup {current}
  /\ UNCHANGED <<restartOnExecution, smPc, current, visited, childOutcomes, smOutcome,
                 previous>>
  /\ UNCHANGED <<cfgVars, envVars>>

\* setOrder() of the machine, called by another component
SMSetOrder(m, v) ==
  /\ Two_setOrder(m, v)
  /\ ExecVarsUnchangedByConfig
  /\ UNCHANGED <<smVars, cfgVars, envVars>>

(***************************************************************************)
(* state_machine::Factory: a registry of constructors keyed by state type. *)
(* A pointer is a set: the empty set is nullptr.                           *)
(***************************************************************************)
nullptr == {}

\* the classes of the repository
FibClass == "CalculateFibonacciSeries"
TwoFibClass == "CalculateTwoFibonacciSeriesSequentially"

\* faulty variant: the composite specialised under the name of the leaf
TypeToStringCopied(c) ==
  "state_machine_example::CalculateFibonacciSeries"

\* STATE_MACHINE_SPECIALIZE_TYPE_TO_STRING(<class>): the state type of a class
TypeToString(c) ==
  IF c = FibClass THEN "state_machine_example::CalculateFibonacciSeries"
  ELSE "state_machine_example::CalculateTwoFibonacciSeriesSequentially"

\* the types the tests ask the Factory for: StateType(#Type)
FibType == "state_machine_example::CalculateFibonacciSeries"
TwoFibType == "state_machine_example::CalculateTwoFibonacciSeriesSequentially"
StateTypes == {FibType, TwoFibType}
\* a type no constructor is registered under
UnknownType == "state_machine_example::Unknown"

\* the constructor registered under a type
ClassOf(type) == IF type = FibType THEN FibClass ELSE TwoFibClass

\* the names states are requested under
FactoryNames == {"MyState", mainName, "Other"}

\* a state as the Factory hands it out: its class, its name, its child states
NewState(c, n, ch) == [class |-> c, name |-> n, children |-> ch]
getType(st) == TypeToString(st.class)
getName(st) == st.name

\* whether the Factory builds an object of the type and injects the Context:
\* never for an unregistered type, always for a registered one with a valid
\* Context; nothing is known of a Factory made with an invalid Context
FactoryBuilds(type) ==
  IF type \notin registered THEN {FALSE}
  ELSE IF contextValid THEN {TRUE}
  ELSE BOOLEAN

\* CalculateFibonacciSeries::constructImpl(): it returns true
Fib_constructImpl == TRUE

\* factory.createState<CalculateFibonacciSeries>(name), b the Factory's answer
createFib(b, n) ==
  IF b /\ Fib_constructImpl THEN {NewState(FibClass, n, <<>>)} ELSE nullptr

\* faulty variant: the check of state 2 left out
Two_constructImplSecondUnchecked(state1, state2) ==
  IF state1 = nullptr THEN FALSE ELSE TRUE

\* CalculateTwoFibonacciSeriesSequentially::constructImpl(), lines 31-39 and 57:
\* false when a child could not be created
Two_constructImpl(state1, state2) ==
  IF state1 = nullptr THEN FALSE
  ELSE IF state2 = nullptr THEN FALSE
  ELSE TRUE

NotRequested ==
  [requested |-> "", done |-> FALSE, state |-> nullptr,
   state1 |-> nullptr, state2 |-> nullptr]

\* Factory::createState(type, name): a state is handed out when the Factory built
\* the object and its constructImpl() returned true.  state1 and state2 are what
\* the composite's constructImpl() got for its children (state 2 is not asked
\* for when state 1 is missing).
CreateState(type, n) ==
  /\ ~created[n].done
  /\ \E built \in FactoryBuilds(type), b1, b2 \in FactoryBuilds(FibType) :
       LET state1 == createFib(b1, name1_)
           state2 == IF state1 = nullptr THEN nullptr ELSE createFib(b2, name2_)
           state ==
             IF ~built THEN nullptr
             ELSE IF ClassOf(type) = FibClass
               THEN createFib(built, n)
             ELSE IF Two_constructImpl(state1, state2)
               THEN {NewState(TwoFibClass, n, <<state1, state2>>)}
             ELSE nullptr
           isTwo == built /\ ClassOf(type) = TwoFibClass
       IN created' = [created EXCEPT ![n] =
                        [requested |-> type, done |-> TRUE, state |-> state,
                         state1 |-> IF isTwo THEN state1 ELSE nullptr,
                         state2 |-> IF isTwo THEN state2 ELSE nullptr]]
  /\ UNCHANGED <<registered, contextValid>>
  /\ UNCHANGED <<leafVars, smVars, cfgVars, progVars, mainVars, valVars, prVars>>

\* no thread in onPreemptionRequest()
InitPrVars ==
  /\ prPc = "idle"
  /\ prReleased = FALSE
  /\ prEarly = {}

\* no getInconsistencies() call yet
InitValVars ==
  /\ inconsistencies = {}
  /\ validations = 0

\* main() has not started
InitMainVars ==
  /\ mainPc = "start"
  /\ mainState = nullptr
  /\ mainInconsistencies = {}

\* the program's own environment: both plugins loaded, a valid Context
InitEnvVars ==
  /\ registered = StateTypes
  /\ contextValid = TRUE
  /\ created = [n \in FactoryNames |-> NotRequested]
  /\ InitProgVars /\ InitMainVars /\ InitValVars /\ InitPrVars

(***************************************************************************)
(* Specification of one standalone leaf, as main() of                      *)
(* calculate_fibonacci_series.cpp runs it, with the other threads.         *)
(***************************************************************************)
theLeaf == Leaf("s1")
theMachine == "m1"

InitLeafVars ==
  /\ order = [s \in LeafIds |-> nullopt]
  /\ orderGiven = {}
  /\ lastPreempt = NoPreemptionRequest
  /\ actionClient = [s \in LeafIds |-> FALSE]
  /\ actionFeedback = [s \in LeafIds |-> {}]
  /\ phase = [s \in LeafIds |-> "Idle"]
  /\ pc = "idle"
  /\ exLeaf = theLeaf
  /\ goalOrder = 0
  /\ midOutcome = NoOutcome
  /\ outcome = [s \in LeafIds |-> NoOutcome]
  /\ goalStatus = "none"
  /\ cancelSent = FALSE
  /\ feedbackCount = 0
  /\ report = <<>>
  /\ goalsSent = 0
  /\ orderChecked = "unchecked"
  /\ actionResult = "none"
  /\ preemptInMid = FALSE
  /\ postRuns = 0
  /\ calls = 0

NoPreviousCall ==
  [active |-> defaultInitialState, outcome |-> NoOutcome,
   visited |-> <<>>, childOutcomes |-> <<>>]

InitSMVars ==
  /\ restartOnExecution = Two_restartOnExecution
  /\ smPc = "idle"
  /\ current = defaultInitialState
  /\ visited = <<>>
  /\ childOutcomes = <<>>
  /\ smOutcome = NoOutcome
  /\ smPreempted = {}
  /\ previous = NoPreviousCall

NoSave == [kind |-> "none", order |-> nullopt, inconsistent |-> FALSE]

InitCfgVars ==
  /\ settings = NoSettings
  /\ savedFrom = NoSave
  /\ justLoaded = "none"
  /\ orderBeforeLoad = nullopt
  /\ loadReturn = {}

Init == InitLeafVars /\ InitSMVars /\ InitCfgVars /\ InitEnvVars

ExecutionSteps(s) ==
  \/ RunPreExecutionReset(s)
  \/ RunPreExecutionClient(s)
  \/ RunMidExecutionCheck(s)
  \/ RunMidExecutionSend(s)
  \/ RunMidExecutionResult(s)
  \/ RunPostExecution(s)
  \/ Return(s)

\* what the action server and the client's timers do to the active goal
ActionSide(honour) ==
  \/ ServerFeedback
  \/ ServerSucceeds(honour)
  \/ ServerAborts(honour)
  \/ ClientTimeout(honour)
  \/ ServerCancels
  \/ ServerDisplaces(honour)

LeafNext(honour) ==
  \/ \E v \in Orders : SetOrder(theLeaf, v)
  \/ Execute(theLeaf)
  \/ ExecutionSteps(theLeaf)
  \/ OnPreemptionRequest(theLeaf)
  \/ ActionSide(honour)

Next == LeafNext(FALSE)

Spec == Init /\ [][Next]_vars

(***************************************************************************)
(* The leaf with a component that validates it at any time, also while it  *)
(* is executed.                                                            *)
(***************************************************************************)
\* getInconsistencies() called by that component
GetInconsistencies(s) ==
  /\ validations < MaxCalls
  /\ validations' = validations + 1
  /\ getInconsistencies(s)
  /\ ExecVarsUnchangedByConfig
  /\ UNCHANGED <<smVars, cfgVars, facVars, progVars, mainVars, prVars>>

NextValidate ==
  \/ Next
  \/ GetInconsistencies(theLeaf)

SpecValidate == Init /\ [][NextValidate]_vars

(***************************************************************************)
(* The leaf with onPreemptionRequest() taken statement by statement: the   *)
(* test of actionClient_ and the call through it are two steps of the      *)
(* requesting thread, and no lock orders them against the execution        *)
(* thread.                                                                 *)
(***************************************************************************)
PreemptLeavesAlone ==
  /\ UNCHANGED <<order, orderGiven, lastPreempt, actionClient, actionFeedback, phase, pc,
                 exLeaf, goalOrder, midOutcome, outcome, goalStatus, feedbackCount,
                 report, goalsSent, orderChecked, actionResult, postRuns, calls>>
  /\ UNCHANGED <<smVars, cfgVars, facVars, progVars, mainVars, valVars>>

\* line 135: if (actionClient_)
PreemptCheck(s) ==
  /\ prPc = "idle"
  /\ prPc' = IF actionClient[s] THEN "cancel" ELSE "idle"
  /\ prEarly' = IF exLeaf = s /\ pc \in {"pre_reset", "pre_client"}
                  THEN prEarly \cup {calls} ELSE prEarly
  /\ UNCHANGED <<prReleased, cancelSent, preemptInMid>>
  /\ PreemptLeavesAlone

\* line 136: actionClient_->cancelExecution(), the client still in place
PreemptCancel(s) ==
  /\ prPc = "cancel"
  /\ actionClient[s]
  /\ cancelExecution
  /\ preemptInMid' = (preemptInMid \/ (exLeaf = s /\ pc = "mid_wait" /\ goalStatus = "active"))
  /\ prPc' = "idle"
  /\ UNCHANGED <<prReleased, prEarly>>
  /\ PreemptLeavesAlone

\* the same line when runPostExecution() has reset actionClient_ since the test:
\* a call through a null pointer, or on a client being destroyed; the thread
\* crashes or the call goes unnoticed
PreemptCancelReleased(s) ==
  /\ prPc = "cancel"
  /\ ~actionClient[s]
  /\ prReleased' = TRUE
  /\ prPc' \in {"idle", "crashed"}
  /\ UNCHANGED <<prEarly, cancelSent, preemptInMid>>
  /\ PreemptLeavesAlone

NextPreemptRace ==
  \/ \E v \in Orders : SetOrder(theLeaf, v)
  \/ Execute(theLeaf)
  \/ ExecutionSteps(theLeaf)
  \/ PreemptCheck(theLeaf)
  \/ PreemptCancel(theLeaf)
  \/ PreemptCancelReleased(theLeaf)
  \/ ActionSide(FALSE)

SpecPreemptRace == Init /\ [][NextPreemptRace]_vars

(***************************************************************************)
(* The same leaf with an action server that answers a cancel request with  *)
(* a cancelled result, under fairness of the execution thread (it is not   *)
(* starved) and of the server's answer to the cancel request.              *)
(***************************************************************************)
NextHonour == LeafNext(TRUE)

SpecHonour ==
  /\ Init
  /\ [][NextHonour]_vars
  /\ WF_vars(ExecutionSteps(theLeaf))
  /\ WF_vars(ServerCancels)

(***************************************************************************)
(* Specification of the composite: the execution thread runs execute() of  *)
(* the machine, which runs its children; other threads set the order and   *)
(* request preemption.                                                     *)
(***************************************************************************)
NextSM ==
  \/ \E v \in Orders : SMSetOrder(theMachine, v)
  \/ SMExecute(theMachine)
  \/ SMRunChild(theMachine)
  \/ \E n \in Children : ExecutionSteps(getState(theMachine, n))
  \/ SMTransition(theMachine)
  \/ SMPreempt(theMachine)
  \/ ActionSide(FALSE)

SpecSM == Init /\ [][NextSM]_vars

(***************************************************************************)
(* Specification of the exchange of settings: two leaves and two machines  *)
(* are configured, saved and loaded in any order; none is executed.        *)
(***************************************************************************)
ExecAndMachineUnchanged ==
  /\ ExecVarsUnchangedByConfig
  /\ UNCHANGED <<smVars, envVars>>

\* setOrder(v) on a leaf
CfgSetOrder(o, v) ==
  /\ setOrder(Leaf(o), v)
  /\ justLoaded' = "none"
  /\ UNCHANGED <<settings, savedFrom, orderBeforeLoad, loadReturn>>
  /\ ExecAndMachineUnchanged

\* State::saveSettings() of a leaf: a new Settings filled by saveSettingsImpl()
CfgSaveSettings(o) ==
  /\ settings' = saveSettingsImpl(Leaf(o), NoSettings)
  /\ savedFrom' = [kind |-> "leaf", order |-> getOrder(Leaf(o)),
                   inconsistent |-> getInconsistenciesImpl(Leaf(o)) # <<>>]
  /\ justLoaded' = "none"
  /\ UNCHANGED <<order, orderGiven, lastPreempt, orderBeforeLoad, loadReturn>>
  /\ ExecAndMachineUnchanged

\* State::loadSettings(settings) of a leaf
CfgLoadSettings(o) ==
  /\ savedFrom.kind # "none"
  /\ loadSettingsImpl(Leaf(o), settings)
  /\ justLoaded' = o
  /\ orderBeforeLoad' = getOrder(Leaf(o))
  /\ UNCHANGED <<settings, savedFrom>>
  /\ ExecAndMachineUnchanged

\* setOrder(v) on a machine
CfgTwoSetOrder(m, v) ==
  /\ Two_setOrder(m, v)
  /\ justLoaded' = "none"
  /\ UNCHANGED <<settings, savedFrom, orderBeforeLoad, loadReturn>>
  /\ ExecAndMachineUnchanged

\* saveSettings() of a machine
CfgTwoSaveSettings(m) ==
  /\ settings' = Two_saveSettingsImpl(m, NoSettings)
  /\ savedFrom' = [kind |-> "machine", order |-> Two_getOrder(m),
                   inconsistent |-> Two_getInconsistencies(m) # <<>>]
  /\ justLoaded' = "none"
  /\ UNCHANGED <<order, orderGiven, lastPreempt, orderBeforeLoad, loadReturn>>
  /\ ExecAndMachineUnchanged

\* loadSettings(settings) of a machine
CfgTwoLoadSettings(m) ==
  /\ savedFrom.kind # "none"
  /\ Two_loadSettingsImpl(m, settings)
  /\ justLoaded' = m
  /\ orderBeforeLoad' = Two_getOrder(m)
  /\ UNCHANGED <<settings, savedFrom>>
  /\ ExecAndMachineUnchanged

\* Settings written elsewhere: by another version of a state, with a parameter
\* this version does not know, with or without the order
OtherParameter == Parameter("timeout", "int", 0)
OtherSettings ==
  {NoSettings, <<OtherParameter>>}
    \cup {<<OtherParameter, Parameter("order", "int", v)>> : v \in Orders}
    \cup {<<Parameter("order", "int", v), OtherParameter>> : v \in Orders}
NotSaved == [kind |-> "other", order |-> nullopt, inconsistent |-> FALSE]

\* such Settings are the next to be loaded
CfgOtherSettings(st) ==
  /\ settings' = st
  /\ savedFrom' = NotSaved
  /\ justLoaded' = "none"
  /\ UNCHANGED <<order, orderGiven, lastPreempt, orderBeforeLoad, loadReturn>>
  /\ ExecAndMachineUnchanged

NextSettings ==
  \/ \E st \in OtherSettings : CfgOtherSettings(st)
  \/ \E o \in Standalone, v \in Orders : CfgSetOrder(o, v)
  \/ \E o \in Standalone : CfgSaveSettings(o)
  \/ \E o \in Standalone : CfgLoadSettings(o)
  \/ \E m \in Machines, v \in Orders : CfgTwoSetOrder(m, v)
  \/ \E m \in Machines : CfgTwoSaveSettings(m)
  \/ \E m \in Machines : CfgTwoLoadSettings(m)

SpecSettings == Init /\ [][NextSettings]_vars

\* the execution thread has returned from execute() of leaf s
Returned(s) == pc = "idle" /\ exLeaf = s /\ outcome[s] # NoOutcome
\* ... or at least from its runMidExecution()
LeftMidExecution(s) == (exLeaf = s /\ pc \in {"post", "return"}) \/ Returned(s)

(***************************************************************************)
(* Properties of the composite.                                            *)
(***************************************************************************)
SMReturned == smPc = "idle" /\ smOutcome # NoOutcome
Ran(n) == \E i \in 1 .. Len(visited) : visited[i] = n
\* child n returned outcome o in this call, as the i-th child executed
ChildReturned(i, n, o) ==
  i \in 1 .. Len(childOutcomes) /\ visited[i] = n /\ childOutcomes[i] = o

\* C1: when child 1 has returned success and child 2 then has returned success
\* in an execute() call of the machine, the call has returned success and has
\* executed exactly child 1, then child 2.
C1_BothSucceedGivesSuccess ==
  (\E i, j \in 1 .. Len(childOutcomes) :
      i < j /\ ChildReturned(i, name1_, success) /\ ChildReturned(j, name2_, success))
    => (SMReturned /\ smOutcome = success /\ visited = <<name1_, name2_>>)

C1_Witness ==
  /\ SMReturned /\ smOutcome = success
  /\ visited = <<name1_, name2_>> /\ childOutcomes = <<success, success>>

\* C2: when child 1 has returned failure or preemption the call has returned that
\* outcome and child 2 has not been executed in it; child 2 is executed only
\* directly after child 1 has returned success in the same call.
C2_ChildOneStopsTheSequence ==
  /\ \A i \in 1 .. Len(childOutcomes) :
       \A o \in {failure, preemption} :
         ChildReturned(i, name1_, o) => (SMReturned /\ smOutcome = o /\ ~Ran(name2_))
  /\ \A j \in 1 .. Len(visited) :
       visited[j] = name2_ => (j > 1 /\ ChildReturned(j - 1, name1_, success))
  /\ (smPc = "child" /\ current = name1_ /\ Returned(getState(theMachine, name1_))
        /\ outcome[getState(theMachine, name1_)] \in {failure, preemption})
       => ~Ran(name2_)

C2_Witness ==
  /\ SMReturned /\ smOutcome = preemption
  /\ visited = <<name1_>> /\ childOutcomes = <<preemption>>

(***************************************************************************)
(* Properties of the settings.                                             *)
(***************************************************************************)
KindOf(b) == IF b \in Standalone THEN "leaf" ELSE "machine"
OrderOf(b) == IF b \in Standalone THEN getOrder(Leaf(b)) ELSE Two_getOrder(b)
InconsistentOf(b) ==
  IF b \in Standalone THEN getInconsistenciesImpl(Leaf(b)) # <<>>
                      ELSE Two_getInconsistencies(b) # <<>>
\* behaviour b has just loaded the settings a behaviour of its own type saved
LoadedOwnKind(b) == justLoaded = b /\ savedFrom.kind = KindOf(b)

\* C9: after s2 has loaded the settings saved by an s1 of the same type whose
\* order was set to v, getOrder() of s2 is v, whatever it was before.
C9_SetValueRoundTrip ==
  \A b \in Standalone \cup Machines :
    (LoadedOwnKind(b) /\ has_value(savedFrom.order)) => OrderOf(b) = savedFrom.order

\* a leaf whose order was set to another value has loaded the settings
C9_Witness ==
  /\ LoadedOwnKind("s2") /\ has_value(savedFrom.order)
  /\ has_value(orderBeforeLoad) /\ orderBeforeLoad # savedFrom.order
  /\ OrderOf("s2") = savedFrom.order

\* C10 (the claim as stated): after y has loaded the settings saved by an x of the
\* same type, y has the order of x and has inconsistencies exactly when x had.
C10_LoadIsLeftInverse ==
  \A b \in Standalone \cup Machines :
    LoadedOwnKind(b) =>
      (OrderOf(b) = savedFrom.order /\ InconsistentOf(b) = savedFrom.inconsistent)

\* C10 (amended): that holds when the order of x is set.  When it is unset, a leaf
\* y ends with order 0 and no inconsistency, and a machine y keeps the order it had.
C10_LoadIsLeftInverseWhenSet ==
  \A b \in Standalone \cup Machines :
    LoadedOwnKind(b) =>
      /\ has_value(savedFrom.order)
           => (OrderOf(b) = savedFrom.order /\ InconsistentOf(b) = savedFrom.inconsistent
               /\ ~InconsistentOf(b))
      /\ (~has_value(savedFrom.order) /\ KindOf(b) = "leaf")
           => (OrderOf(b) = Some(0) /\ ~InconsistentOf(b) /\ savedFrom.inconsistent)
      /\ (~has_value(savedFrom.order) /\ KindOf(b) = "machine")
           => (OrderOf(b) = orderBeforeLoad /\ savedFrom.inconsistent)

\* a machine whose order was unset has loaded the settings of a machine whose
\* order was set
C10_Witness ==
  /\ LoadedOwnKind("m2") /\ has_value(savedFrom.order) /\ ~has_value(orderBeforeLoad)
  /\ OrderOf("m2") = savedFrom.order /\ ~InconsistentOf("m2")

(***************************************************************************)
(* Properties of the leaf.                                                 *)
(***************************************************************************)

\* C3 (the claim as stated): an execute() call during which a preemption request
\* was issued while the leaf was blocked in mid-execution on its goal returns
\* preemption, and in particular never failure.
C3_PreemptionNeverFailure ==
  \A s \in LeafIds :
    (Returned(s) /\ preemptInMid) => (outcome[s] = preemption /\ outcome[s] # failure)

\* C3 (amended): such a request reaches the goal as a cancel request, and the call
\* returns preemption exactly when the goal then ends cancelled; when the goal
\* ends succeeded the call returns success, and when it ends faulted or by
\* timeout the call returns failure.
C3_PreemptionWhenGoalCancelled ==
  \A s \in LeafIds :
    /\ (exLeaf = s /\ preemptInMid) => cancelSent
    /\ (Returned(s) /\ preemptInMid) =>
         /\ outcome[s] = preemption <=> actionResult = "cancelled"
         /\ outcome[s] = success <=> actionResult = "succeeded"
         /\ outcome[s] = failure <=> actionResult \in {"faulted", "timeout"}

C3_Witness ==
  /\ Returned(theLeaf) /\ preemptInMid /\ cancelSent
  /\ actionResult = "cancelled" /\ outcome[theLeaf] = preemption

\* C4: once a preemption request has been issued while execute() is blocked in
\* mid-execution on the goal, execute() eventually returns, with preemption.
C4_PreemptionEventuallyReturned ==
  preemptInMid ~> (Returned(theLeaf) /\ outcome[theLeaf] = preemption)

C4_Witness ==
  Returned(theLeaf) /\ preemptInMid /\ outcome[theLeaf] = preemption

\* C5: runPostExecution has run exactly once in every execute() call that has
\* returned, whatever the exit path of mid-execution, and no leaf outside an
\* execute() call holds an action client.
C5_PostExecutionOnEveryPath ==
  /\ \A s \in LeafIds : phase[s] = "Idle" => ~actionClient[s]
  /\ \A s \in LeafIds : Returned(s) => postRuns = 1

\* the early failure (order unset) has returned and the handle is released
C5_Witness ==
  /\ Returned(theLeaf) /\ orderChecked = "unset" /\ outcome[theLeaf] = failure
  /\ postRuns = 1 /\ ~actionClient[theLeaf]

PhaseSuccessor ==
  {<<"Idle", "PreExecution">>, <<"PreExecution", "MidExecution">>,
   <<"MidExecution", "PostExecution">>, <<"PostExecution", "Idle">>}

\* C6: the phase of a leaf only moves Idle -> PreExecution -> MidExecution ->
\* PostExecution -> Idle; the outcome of a call is set once, on the step back to
\* Idle, to what mid-execution produced, which is success, preemption or failure.
C6_PhaseOrderAndOneOutcome ==
  [][\A s \in LeafIds :
       /\ phase'[s] # phase[s] => <<phase[s], phase'[s]>> \in PhaseSuccessor
       /\ (phase[s] = "PostExecution" /\ phase'[s] = "Idle")
            => (outcome'[s] = midOutcome /\ outcome'[s] \in CanonicalOutcomes)
       /\ outcome'[s] # outcome[s]
            => \/ phase[s] = "Idle" /\ phase'[s] = "PreExecution" /\ outcome'[s] = NoOutcome
               \/ phase[s] = "PostExecution" /\ phase'[s] = "Idle"
       /\ (phase[s] # "Idle" /\ phase'[s] # "Idle") => outcome'[s] = NoOutcome]_vars

C6_Witness ==
  Returned(theLeaf) /\ outcome[theLeaf] = success /\ phase[theLeaf] = "Idle"

\* C7 (the claim as stated): every execute() call that has left mid-execution has
\* sent exactly one goal and has observed a terminal result for it.
C7_ExactlyOneGoalEveryCall ==
  \A s \in LeafIds :
    LeftMidExecution(s)
      => (goalsSent = 1 /\ actionResult \in TerminalGoalStatus)

\* C7 (amended): a call sends at most one goal: exactly one when the order is set
\* at the check of runMidExecution, and then mid-execution is left only with the
\* terminal outcome of that goal; none when the order is unset.
C7_OneGoalWhenOrderSet ==
  /\ goalsSent <= 1
  /\ \A s \in LeafIds :
       LeftMidExecution(s)
         => /\ orderChecked = "set"
                 => (goalsSent = 1 /\ actionResult \in TerminalGoalStatus
                     /\ actionResult = goalStatus)
            /\ orderChecked = "unset" => (goalsSent = 0 /\ actionResult = "none")
            /\ orderChecked \in {"set", "unset"}

C7_Witness ==
  Returned(theLeaf) /\ orderChecked = "set" /\ goalsSent = 1 /\ actionResult = "faulted"

\* C8: the outcome of mid-execution is a function of the goal's outcome alone:
\* succeeded gives success, cancelled gives preemption, anything else failure.
C8_OutcomeFromResultAlone ==
  (actionResult # "none") =>
     /\ actionResult = "succeeded" => midOutcome = success
     /\ actionResult = "cancelled" => midOutcome = preemption
     /\ actionResult \notin {"succeeded", "cancelled"} => midOutcome = failure

C8_Witness ==
  Returned(theLeaf) /\ actionResult = "timeout" /\ outcome[theLeaf] = failure

(***************************************************************************)
(* Properties of the validation.                                           *)
(***************************************************************************)
\* C11: the list of inconsistencies of a leaf is non-empty exactly when its order
\* has never been assigned, by setOrder() or by a load of settings that carry the
\* order, since the leaf was constructed; it then has the one entry naming the
\* order.
C11_InconsistentExactlyWhenOrderNeverGiven ==
  \A s \in LeafIds :
    /\ (getInconsistenciesImpl(s) # <<>>) <=> (s \notin orderGiven)
    /\ Len(getInconsistenciesImpl(s)) <= 1

\* a leaf that was never given an order by setOrder() has loaded the settings
\* saved by a fresh leaf and is consistent, while the fresh leaf still is not
C11_Witness ==
  /\ LoadedOwnKind("s2") /\ ~has_value(orderBeforeLoad) /\ savedFrom.inconsistent
  /\ getInconsistenciesImpl(Leaf("s2")) = <<>>
  /\ getInconsistenciesImpl(Leaf("s1")) # <<>>

(***************************************************************************)
(* Specification of the Factory as TestPlugins uses it: states of any type *)
(* are requested under several names, from a Factory with any registry and *)
(* any Context.                                                            *)
(***************************************************************************)
InitFactory ==
  /\ InitLeafVars /\ InitSMVars /\ InitCfgVars
  /\ registered \in SUBSET StateTypes
  /\ contextValid \in BOOLEAN
  /\ created = [n \in FactoryNames |-> NotRequested]
  /\ InitProgVars /\ InitMainVars /\ InitValVars /\ InitPrVars

NextFactory ==
  \E type \in StateTypes \cup {UnknownType}, n \in FactoryNames : CreateState(type, n)

SpecFactory == InitFactory /\ [][NextFactory]_vars

\* the state handed out under name n
StateOf(n) == CHOOSE st \in created[n].state : TRUE

\* C12: with both state types registered and a valid Context, createState(type,
\* name) for either type returns a state (not nullptr) whose getType() is the
\* requested type, whose getName() is the requested name and whose class is the
\* one registered under the type; the composite comes with its two children.
C12_RegisteredTypeIsCreated ==
  (StateTypes \subseteq registered /\ contextValid) =>
    \A n \in FactoryNames :
      (created[n].done /\ created[n].requested \in StateTypes) =>
        /\ created[n].state # nullptr
        /\ getType(StateOf(n)) = created[n].requested
        /\ getName(StateOf(n)) = n
        /\ StateOf(n).class = ClassOf(created[n].requested)
        /\ (created[n].requested = TwoFibType) => Len(StateOf(n).children) = 2

\* both types have been created, as checkAllStatePluginsExist does
C12_Witness ==
  /\ StateTypes \subseteq registered /\ contextValid
  /\ created["MyState"].done /\ created["MyState"].requested = FibType
  /\ created["MyState"].state # nullptr
  /\ created["Other"].done /\ created["Other"].requested = TwoFibType
  /\ created["Other"].state # nullptr /\ getType(StateOf("Other")) = TwoFibType

\* C13: createState() returns nullptr for a type that is not registered, and for
\* the composite when either of its children could not be created; a composite
\* that is handed out has both its children, under their names.
C13_NoInstanceOnFailedConstruction ==
  \A n \in FactoryNames :
    created[n].done =>
      /\ created[n].requested \notin registered => created[n].state = nullptr
      /\ (created[n].requested = TwoFibType /\ created[n].requested \in registered
            /\ (created[n].state1 = nullptr \/ created[n].state2 = nullptr))
           => created[n].state = nullptr
      /\ (created[n].state # nullptr /\ StateOf(n).class = TwoFibClass) =>
           /\ Len(StateOf(n).children) = 2
           /\ \A i \in 1 .. 2 : StateOf(n).children[i] # nullptr
           /\ \E c1 \in StateOf(n).children[1], c2 \in StateOf(n).children[2] :
                c1.name = name1_ /\ c2.name = name2_

\* the composite was built by the Factory, its first child was created, its
\* second was not, and no state was handed out
C13_Witness ==
  \E n \in FactoryNames :
    /\ created[n].done /\ created[n].requested = TwoFibType /\ TwoFibType \in registered
    /\ created[n].state1 # nullptr /\ created[n].state2 = nullptr
    /\ created[n].state = nullptr

(***************************************************************************)
(* Specification of the composite when it continues from where it left     *)
(* off: the same machine after setRestartOnExecution(false).               *)
(***************************************************************************)
InitResume ==
  /\ InitLeafVars /\ InitCfgVars /\ InitEnvVars
  /\ restartOnExecution = FALSE
  /\ smPc = "idle"
  /\ current = defaultInitialState
  /\ visited = <<>>
  /\ childOutcomes = <<>>
  /\ smOutcome = NoOutcome
  /\ smPreempted = {}
  /\ previous = NoPreviousCall

SpecSMResume == InitResume /\ [][NextSM]_vars

(***************************************************************************)
(* Properties of the restart policy and of the walk.                       *)
(***************************************************************************)
\* C14: the machine restarts on execution, and every execute() call starts at
\* the default initial state, child 1: it is the current child when the call
\* selects its first child and the first child the call executes.
C14_RestartAtDefaultInitialState ==
  /\ restartOnExecution
  /\ (smPc = "select" /\ visited = <<>>) => current = name1_
  /\ visited # <<>> => visited[1] = name1_

\* the call before ended in child 2, preempted, and this one executes child 1
C14_Witness ==
  /\ previous.active = name2_ /\ previous.outcome = preemption
  /\ visited # <<>> /\ visited[1] = name1_

\* C15: when the machine does not restart on execution and the call before ended
\* with preemption while child k was the current child, this call executes child
\* k first.
C15_ResumeAtPreemptedChild ==
  /\ ~restartOnExecution
  /\ (previous.outcome = preemption /\ smPc = "select" /\ visited = <<>>)
       => current = previous.active
  /\ (previous.outcome = preemption /\ visited # <<>>)
       => visited[1] = previous.active

\* the call before was preempted in child 2 and this one executes child 2 first
C15_Witness ==
  /\ ~restartOnExecution
  /\ previous.active = name2_ /\ previous.outcome = preemption
  /\ previous.visited = <<name1_, name2_>>
  /\ visited # <<>> /\ visited[1] = name2_

\* the first n outcomes of the children are the same in this call as in the one
\* before
SameOutcomesUpTo(n) ==
  /\ n <= Len(childOutcomes) /\ n <= Len(previous.childOutcomes)
  /\ \A j \in 1 .. n : childOutcomes[j] = previous.childOutcomes[j]

NextProgress ==
  \/ Next
  \/ GetProgress(theLeaf)
  \/ GetProgressLock(theLeaf)
  \/ GetProgressCheck(theLeaf)
  \/ GetProgressRead(theLeaf)
  \/ GetProgressReadTorn(theLeaf)

SpecProgress == Init /\ [][NextProgress]_vars

(***************************************************************************)
(* Properties of the progress.                                             *)
(***************************************************************************)
\* a getProgress() call has returned, and the leaf was in no execute() call from
\* its start to its return
ReturnedWhileIdle == gpPc = "done" /\ gpIdle /\ gpCalls = calls

\* C18 (the claim as stated): a getProgress() call made while no execute() call is
\* in flight on the leaf returns the default Progress, also after executions that
\* received feedback.
C18_DefaultProgressWhenIdle ==
  ReturnedWhileIdle => gpResult = DefaultProgress

\* C19 (the claim as stated): a getProgress() call concurrent with execute(), the
\* feedback callback and preemption requests runs to its return, and what it
\* returns is computed from the one actionFeedback_ its check found.
C19_ProgressFromOneSnapshot ==
  /\ gpPc # "crashed"
  /\ ~gpTorn
  /\ gpPc = "read" => actionFeedback[theLeaf] = gpSeen

(***************************************************************************)
(* main() of calculate_fibonacci_series.cpp, the orchestrator of the       *)
(* repository: create the state, configure it, validate it, execute it.    *)
(* main() configures the state with setOrder(5); the orchestrator of the   *)
(* design description loads settings instead, which may lack the order.    *)
(***************************************************************************)
\* line 29: state->setOrder(5)
MainOrder == 5

\* the settings an orchestrator may load: none, or an order
OrchSettings ==
  {NoSettings} \cup {addParameter(NoSettings, Parameter("order", "int", v)) : v \in Orders}

\* line 26: if (state == nullptr)
StateMissing(st) == st = nullptr

\* faulty variant: the state is executed whatever the list holds
InconsistenciesIgnored(inc) == FALSE

\* line 31: if (!inconsistencies.empty())
InconsistenciesBlock(inc) == inc # <<>>

MainLeavesAlone == UNCHANGED <<smVars, cfgVars, facVars, progVars, valVars, prVars>>

\* lines 23-28: the Factory is asked for the state; EXIT_FAILURE without it
MainCreateState ==
  /\ mainPc = "start"
  /\ \E b \in FactoryBuilds(FibType) :
       /\ mainState' = createFib(b, mainName)
       /\ mainPc' = IF StateMissing(createFib(b, mainName)) THEN "exit_failure"
                    ELSE "created"
  /\ UNCHANGED mainInconsistencies
  /\ UNCHANGED leafVars
  /\ MainLeavesAlone

\* line 29
MainSetOrder ==
  /\ mainPc = "created"
  /\ setOrder(theLeaf, MainOrder)
  /\ mainPc' = "configured"
  /\ ExecVarsUnchangedByConfig
  /\ UNCHANGED <<mainState, mainInconsistencies>>
  /\ MainLeavesAlone

\* the orchestrator of the design description: loadSettings(settings)
OrchLoadSettings(st) ==
  /\ mainPc = "created"
  /\ loadSettingsImpl(theLeaf, st)
  /\ mainPc' = "configured"
  /\ ExecVarsUnchangedByConfig
  /\ UNCHANGED <<mainState, mainInconsistencies>>
  /\ UNCHANGED <<settings, savedFrom, justLoaded, orderBeforeLoad>>
  /\ UNCHANGED <<smVars, facVars, progVars, valVars, prVars>>

\* line 30: const auto inconsistencies{state->getInconsistencies()}
MainGetInconsistencies ==
  /\ mainPc = "configured"
  /\ mainInconsistencies' = {getInconsistenciesImpl(theLeaf)}
  /\ mainPc' = "validated"
  /\ UNCHANGED mainState
  /\ UNCHANGED leafVars
  /\ MainLeavesAlone

\* lines 31-35: EXIT_FAILURE for an inconsistent state
MainRejectInconsistent ==
  /\ mainPc = "validated"
  /\ \E inc \in mainInconsistencies : InconsistenciesBlock(inc)
  /\ mainPc' = "exit_failure"
  /\ UNCHANGED <<mainState, mainInconsistencies>>
  /\ UNCHANGED leafVars
  /\ MainLeavesAlone

\* lines 36-39: state->execute()
MainExecute ==
  /\ mainPc = "validated"
  /\ \E inc \in mainInconsistencies : ~InconsistenciesBlock(inc)
  /\ calls < MaxCalls
  /\ calls' = calls + 1
  /\ StateExecute(theLeaf)
  /\ mainPc' = "executing"
  /\ UNCHANGED <<mainState, mainInconsistencies>>
  /\ MainLeavesAlone

\* lines 39-42: execute() has returned; EXIT_SUCCESS
MainReturn ==
  /\ mainPc = "executing"
  /\ Returned(theLeaf)
  /\ mainPc' = "exit_success"
  /\ UNCHANGED <<mainState, mainInconsistencies>>
  /\ UNCHANGED leafVars
  /\ MainLeavesAlone

\* any plugins may be loaded; main() makes its own, valid Context.  Nothing in
\* main() requests a preemption, so the action server is never asked to cancel.
InitMain ==
  /\ InitLeafVars /\ InitSMVars /\ InitCfgVars
  /\ registered \in SUBSET StateTypes
  /\ contextValid = TRUE
  /\ created = [n \in FactoryNames |-> NotRequested]
  /\ InitProgVars /\ InitMainVars /\ InitValVars /\ InitPrVars

NextMain ==
  \/ MainCreateState
  \/ MainSetOrder
  \/ \E st \in OrchSettings : OrchLoadSettings(st)
  \/ MainGetInconsistencies
  \/ MainRejectInconsistent
  \/ MainExecute
  \/ ExecutionSteps(theLeaf)
  \/ ServerFeedback
  \/ ServerSucceeds(FALSE)
  \/ ServerAborts(FALSE)
  \/ ClientTimeout(FALSE)
  \/ ServerDisplaces(FALSE)
  \/ MainReturn

SpecMain == InitMain /\ [][NextMain]_vars

\* execute() has been called on the leaf
ExecuteCalled == calls > 0 \/ phase[theLeaf] # "Idle" \/ pc # "idle"

\* C20: execute() is called only on a state the Factory returned and whose
\* getInconsistencies() was obtained and empty (and which is consistent still);
\* a run that found no state or an inconsistent one ends without an execute() call.
C20_ExecuteOnlyWhenValid ==
  /\ ExecuteCalled =>
       /\ mainState # nullptr
       /\ mainInconsistencies = {<<>>}
       /\ getInconsistenciesImpl(theLeaf) = <<>>
  /\ (mainState = nullptr \/ mainInconsistencies \notin {{}, {<<>>}}) => ~ExecuteCalled
  /\ mainPc = "exit_failure" => ~ExecuteCalled

\* a state that loaded settings without the order was found inconsistent and was
\* not executed
C20_Witness ==
  /\ mainPc = "exit_failure" /\ mainState # nullptr
  /\ mainInconsistencies # {} /\ mainInconsistencies # {<<>>}
  /\ ~ExecuteCalled

(***************************************************************************)
(* Properties of the preemption of the composite.                          *)
(***************************************************************************)
\* C21: a preemption request on the machine runs onPreemptionRequest() of one
\* child, the machine's current child at that moment, while the machine is in
\* that child's execute(); no other child is in an execute() call then, and no
\* other child's onPreemptionRequest() runs.
C21_PreemptionForwardedToActiveChild ==
  /\ lastPreempt.target # {} =>
       /\ lastPreempt.smPc = "child"
       /\ lastPreempt.target = {getState(theMachine, lastPreempt.current)}
       /\ lastPreempt.busyOthers = {}
  /\ smPc = "child" =>
       \A n \in Children \ {current} : phase[getState(theMachine, n)] = "Idle"

\* the request came while child 2 was blocked on its goal, and reached its goal
C21_Witness ==
  /\ lastPreempt.target = {getState(theMachine, name2_)}
  /\ phase[getState(theMachine, name2_)] = "MidExecution"
  /\ preemptInMid /\ cancelSent
  /\ visited = <<name1_, name2_>>


(***************************************************************************)
(* Properties of the shared order of the composite.                        *)
(***************************************************************************)
\* C22: whatever setOrder() and loadSettings() calls a machine has received,
\* its two children hold the same order, and that is what getOrder() of the
\* machine returns.
C22_ChildrenShareTheOrder ==
  \A m \in Machines :
    /\ getOrder(getState(m, name1_)) = getOrder(getState(m, name2_))
    /\ Two_getOrder(m) = getOrder(getState(m, name2_))

\* a machine whose order was set has loaded another order from settings, and
\* the other machine holds a different order
C22_Witness ==
  \E m \in Machines :
    /\ justLoaded = m
    /\ has_value(orderBeforeLoad)
    /\ has_value(Two_getOrder(m))
    /\ Two_getOrder(m) # orderBeforeLoad
    /\ \E m2 \in Machines \ {m} : Two_getOrder(m2) # Two_getOrder(m)


(***************************************************************************)
(* Properties of loading settings written elsewhere.                       *)
(***************************************************************************)
\* C23: loadSettings() of a leaf or a machine returns true for every Settings,
\* with or without a parameter it does not know and with or without "order";
\* the order is then the value of the parameter "order" when there is one,
\* whatever other parameters there are, and the order held before when there is
\* none.
C23_LoadIsForwardCompatible ==
  \A b \in Standalone \cup Machines :
    justLoaded = b =>
      /\ loadReturn = {TRUE}
      /\ parameterIsRegistered(settings, "order")
           => OrderOf(b) = Some(as_int(getParameter(settings, "order")))
      /\ ~parameterIsRegistered(settings, "order") => OrderOf(b) = orderBeforeLoad

\* a leaf whose order was set has loaded settings that hold a parameter it does
\* not know and no order
C23_Witness ==
  /\ justLoaded \in Standalone
  /\ settings = <<OtherParameter>>
  /\ has_value(orderBeforeLoad) /\ OrderOf(justLoaded) = orderBeforeLoad
  /\ loadReturn = {TRUE}


ResetWritten == pc = "pre_reset" /\ pc' = "pre_client"
\* the step is a feedback callback replacing actionFeedback_
CallbackWritten == feedbackCount' # feedbackCount /\ pc' = pc

\* C25 (the claim as stated): no write of actionFeedback_, the reset in
\* runPreExecution() or the replacement in the feedback callback, happens while
\* a getProgress() call holds actionFeedbackMutex_ in shared mode.
C25_WritesExcludeReaders ==
  [][(ResetWritten \/ CallbackWritten) => ~SharedLockHeldByReader]_vars

\* the part of it that holds: the feedback callback waits for the readers
CallbackExcludesReaders ==
  [][CallbackWritten => ~SharedLockHeldByReader]_vars


(***************************************************************************)
(* Properties of the report and of the early failure.                      *)
(***************************************************************************)
\* C26: an execute() call that has returned failure has added a report entry
\* of level ERROR, and every execute() call that has returned has added at
\* least one report entry.
C26_FailureIsReported ==
  \A s \in LeafIds :
    Returned(s) =>
      /\ outcome[s] = failure => \E i \in 1 .. Len(report) : report[i] = "ERROR"
      /\ Len(report) >= 1

\* a goal was sent and ended faulted: the entries of the call are the DEBUG
\* entry of the start and the ERROR entry of the failure
C26_Witness ==
  /\ Returned(theLeaf) /\ outcome[theLeaf] = failure
  /\ actionResult = "faulted"
  /\ report = <<"DEBUG", "ERROR">>


\* C27: an execute() call that finds the order unset returns failure and sends
\* no goal; runPreExecution() has run before the check (the action client is
\* there) and runPostExecution() runs after it (once, releasing the client); a
\* call returns success only when it found the order set.
C27_UnsetOrderFailsWithoutGoal ==
  \A s \in LeafIds :
    /\ (exLeaf = s /\ pc = "post" /\ orderChecked = "unset")
         => (midOutcome = failure /\ goalsSent = 0 /\ actionClient[s] /\ postRuns = 0)
    /\ (Returned(s) /\ orderChecked = "unset")
         => (outcome[s] = failure /\ goalsSent = 0 /\ goalStatus = "none"
             /\ postRuns = 1 /\ ~actionClient[s])
    /\ (Returned(s) /\ outcome[s] = success)
         => (orderChecked = "set" /\ has_value(order[s]) /\ goalsSent = 1)

\* a leaf that was never configured has been executed
C27_Witness ==
  /\ Returned(theLeaf) /\ theLeaf \notin orderGiven
  /\ orderChecked = "unset" /\ outcome[theLeaf] = failure
  /\ goalsSent = 0 /\ postRuns = 1 /\ report = <<"ERROR">>


(***************************************************************************)
(* Properties of the validation.                                           *)
(***************************************************************************)
\* C28: a getInconsistencies() call leaves the order, the action client, the
\* feedback and the phase of the leaf as they were, and the list it returns is
\* the list a call right after it returns.
C28_GetInconsistenciesIsPure ==
  [][validations' # validations =>
       /\ UNCHANGED <<order, actionClient, actionFeedback, phase>>
       /\ inconsistencies' = {getInconsistenciesImpl(theLeaf)}
       /\ inconsistencies' = {getInconsistenciesImpl(theLeaf)}']_vars

\* an unconfigured leaf was validated twice while it was being executed, its
\* action client in place
C28_Witness ==
  /\ validations >= 2
  /\ inconsistencies = {<<"The order has not been set.">>}
  /\ phase[theLeaf] = "MidExecution" /\ actionClient[theLeaf]
  /\ ~has_value(order[theLeaf])


(***************************************************************************)
(* Properties of the transitions written in constructImpl().               *)
(***************************************************************************)
\* the transitions written for child n that name outcome o
EntriesFor(n, o) ==
  {i \in 1 .. Len(TransitionList(n)) : TransitionList(n)[i].outcome = o}

\* C29: for each child and each of its outcomes (success, preemption, failure)
\* the transitions written for the child hold exactly one entry, and no entry for
\* anything else; every entry names a child of the machine or an outcome of the
\* machine.  So every outcome a child has returned was found in the table.
C29_TransitionsCoverTheOutcomes ==
  /\ \A n \in Children :
       /\ \A o \in CanonicalOutcomes : Cardinality(EntriesFor(n, o)) = 1
       /\ Len(TransitionList(n)) = Cardinality(CanonicalOutcomes)
       /\ \A i \in 1 .. Len(TransitionList(n)) :
            TransitionList(n)[i].next \in Children \cup Two_Outcomes
  /\ \A i \in 1 .. Len(childOutcomes) :
       /\ childOutcomes[i] \in DOMAIN Transitions(visited[i])
       /\ Cardinality(EntriesFor(visited[i], childOutcomes[i])) = 1

\* state 1 succeeded, state 2 failed, and the machine has returned failure: two
\* entries were looked up, one naming a sibling and one an outcome of the machine
C29_Witness ==
  /\ SMReturned /\ smOutcome = failure
  /\ visited = <<name1_, name2_>>
  /\ childOutcomes = <<success, failure>>


(***************************************************************************)
(* Properties of onPreemptionRequest().                                    *)
(***************************************************************************)
\* the step is an onPreemptionRequest() call
PreemptionRequested == lastPreempt' # lastPreempt
\* the leaf it was called on
RequestedLeaf == CHOOSE s \in LeafIds : lastPreempt'.target = {s}

C31_UnhonouredCancelRunsToCompletion ==
  \A s \in LeafIds :
    /\ (exLeaf = s /\ cancelSent /\ goalStatus = "active")
         => (pc = "mid_wait" /\ midOutcome = NoOutcome /\ outcome[s] = NoOutcome)
    /\ (Returned(s) /\ cancelSent /\ actionResult = "succeeded")
         => (outcome[s] = success /\ postRuns = 1)
    /\ (Returned(s) /\ cancelSent /\ actionResult \in {"faulted", "timeout"})
         => (outcome[s] = failure /\ postRuns = 1)

\* a preemption was requested while the leaf was blocked on its goal, the goal
\* succeeded, and execute() has returned success
C31_Witness ==
  /\ Returned(theLeaf) /\ preemptInMid /\ cancelSent
  /\ actionResult = "succeeded" /\ outcome[theLeaf] = success
  /\ report = <<"DEBUG", "INFO">>


(***************************************************************************)
(* The exchange of settings when a component that holds a child of a       *)
(* machine configures the child itself.                                    *)
(***************************************************************************)
\* setOrder(v) on child n of machine m, not through the machine
CfgChildSetOrder(m, n, v) ==
  /\ setOrder(getState(m, n), v)
  /\ justLoaded' = "none"
  /\ UNCHANGED <<settings, savedFrom, orderBeforeLoad, loadReturn>>
  /\ ExecAndMachineUnchanged

NextChildren ==
  \/ NextSettings
  \/ \E m \in Machines, n \in Children, v \in Orders : CfgChildSetOrder(m, n, v)

SpecChildren == Init /\ [][NextChildren]_vars

\* C32 (the claim as stated): a machine whose children hold different orders, or
\* of which one child only has an order, has inconsistencies.
C32_DisagreementIsFlagged ==
  \A m \in Machines :
    getOrder(getState(m, name1_)) # getOrder(getState(m, name2_))
      => Two_getInconsistencies(m) # <<>>


(***************************************************************************)
(* Properties of a preemption of the machine between its children.         *)
(***************************************************************************)
\* C33 (the claim as stated): once a preemption of the machine was requested
\* while state 1 was its current child, state 2 is not started in that call and
\* the call does not return success.
C33_NoChildAfterPreemption ==
  name1_ \in smPreempted =>
    (~Ran(name2_) /\ (SMReturned => smOutcome # success))

\* what holds of the machine: when a child returns preemption no further child
\* is started and the call returns preemption; state 2 is started after a
\* request made during state 1 exactly when state 1 returned success all the
\* same, it then runs without a cancel request of its own, and the call returns
\* what state 2 returns.
NextChildUnlessPreemptionReturned ==
  /\ \A i \in 1 .. Len(childOutcomes) :
       childOutcomes[i] = preemption
         => (Len(visited) = i /\ (SMReturned => smOutcome = preemption))
  /\ (name1_ \in smPreempted /\ Ran(name2_)) => ChildReturned(1, name1_, success)
  /\ (name1_ \in smPreempted /\ Len(childOutcomes) >= 1 /\ childOutcomes[1] = success)
       => (current = name2_ /\ (smPc = "child" => Ran(name2_)))
  /\ (name2_ \notin smPreempted /\ current = name2_ /\ exLeaf = getState(theMachine, name2_)
        /\ goalStatus = "active")
       => ~cancelSent
  /\ (SMReturned /\ Ran(name2_)) => smOutcome = childOutcomes[Len(childOutcomes)]


(***************************************************************************)
(* Properties of onPreemptionRequest() against runPostExecution().         *)
(***************************************************************************)
\* C34 (the claim as stated): the action client that the test of
\* onPreemptionRequest() found is still in place when cancelExecution() is
\* called on it: runPostExecution() does not reset it in between, and
\* cancelExecution() is never called on a released client.
C34_CancelOnLiveClientOnly ==
  /\ prPc = "cancel" => actionClient[theLeaf]
  /\ ~prReleased
  /\ prPc # "crashed"


(***************************************************************************)
(* Properties of a preemption request made before the goal is sent.        *)
(***************************************************************************)
\* C35 (the claim as stated): an execute() call during which a preemption was
\* requested before the action client existed, and which went on to send its
\* goal, returns preemption.
C35_EarlyRequestNotLost ==
  (Returned(theLeaf) /\ calls \in prEarly /\ goalsSent = 1)
    => outcome[theLeaf] = preemption

\* what holds: such a request leaves no trace in the leaf, no cancel request is
\* pending when the goal is sent
EarlyRequestLeavesNoTrace ==
  (pc = "mid_send" /\ exLeaf = theLeaf) => ~cancelSent


(***************************************************************************)
(* Properties of the outcome preemption.                                   *)
(***************************************************************************)
\* C36 (the claim as stated): an execute() call of a leaf returns preemption only
\* when onPreemptionRequest() was called on the leaf; without any such call no
\* execute() returns preemption.
C36_PreemptionOnlyOnRequest ==
  \A s \in LeafIds :
    (Returned(s) /\ outcome[s] = preemption) => lastPreempt.target = {s}

\* what holds: preemption is returned exactly for a goal that ended cancelled,
\* whoever cancelled it
PreemptionExactlyWhenGoalCancelled ==
  \A s \in LeafIds :
    Returned(s) => (outcome[s] = preemption <=> actionResult = "cancelled")


(***************************************************************************)
(* Properties of the Progress returned during an execution.                *)
(***************************************************************************)
\* the step is the return of a getProgress() call with a Progress that is not
\* the default one, while the leaf is in an execute() call
ProgressReturnedInExecution ==
  /\ gpPc = "read" /\ gpPc' = "done"
  /\ phase[theLeaf] # "Idle"
  /\ gpResult' # DefaultProgress

\* C37 (the claim as stated): actionFeedback_ is empty when the goal is sent,
\* and a Progress that is not the default one is returned during an execute()
\* call only when the goal of that call has been sent, so that it is computed
\* from feedback for that goal.
C37_ProgressFromThisExecution ==
  [][/\ (pc = "mid_send" /\ pc' = "mid_wait") => actionFeedback[theLeaf] = {}
     /\ ProgressReturnedInExecution => goalsSent = 1]_vars

\* the part of it that holds: actionFeedback_ is empty from the reset of
\* runPreExecution() until the goal is sent
FeedbackEmptyWhenGoalSent ==
  (exLeaf = theLeaf /\ pc \in {"pre_client", "mid_check", "mid_send"})
    => actionFeedback[theLeaf] = {}


\* C38 (the claim as stated): every non-empty Progress that getProgress() returns
\* while a goal of the current execution has been sent has as goal the order that
\* was sent in that goal, also when setOrder() is called during the execution.
C38_ProgressGoalIsTheSentOrder ==
  [][(ProgressReturnedInExecution /\ goalsSent = 1 /\ exLeaf = theLeaf)
       => \A p \in gpResult' : p.goal = goalOrder]_vars

\* what holds instead: the goal of a Progress computed from untorn feedback is the
\* order of the leaf at the moment of the query
ProgressGoalIsTheCurrentOrder ==
  [][(ProgressReturnedInExecution /\ ~gpTorn')
       => \A p \in gpResult' : p.goal = value(order[theLeaf])]_vars


(***************************************************************************)
(* Termination of execute() of the composite.                              *)
(***************************************************************************)
\* the children the transitions written for child n lead to
SuccessorsOf(n) ==
  {TransitionList(n)[i].next : i \in 1 .. Len(TransitionList(n))} \cap Children

\* the children reached from child n by one transition or more
ReachableFrom(n) == SuccessorsOf(n) \cup UNION {SuccessorsOf(k) : k \in SuccessorsOf(n)}

\* no child is reached from itself
TransitionsAreAcyclic == \A n \in Children : n \notin ReachableFrom(n)

\* the execution thread of the machine is never stuck between two children: a
\* call that is not inside a child either enters the next child or looks up the
\* outcome of the one that returned
MachineStepIsEnabled ==
  /\ smPc = "select" => ENABLED SMRunChild(theMachine)
  /\ (smPc = "child" /\ pc = "idle") => ENABLED SMTransition(theMachine)

\* C39: the transitions of the composite have no cycle; in one execute() call
\* each child is executed at most once and at most two executions of a child are
\* made; between two children the call always has a step to take, and it returns
\* the outcome of the last child executed.
C39_ExecuteTerminates ==
  /\ TransitionsAreAcyclic
  /\ Len(visited) <= 2
  /\ \A i, j \in 1 .. Len(visited) : visited[i] = visited[j] => i = j
  /\ Len(childOutcomes) <= Len(visited)
  /\ MachineStepIsEnabled
  /\ SMReturned => /\ Len(childOutcomes) = Len(visited)
                   /\ Len(childOutcomes) >= 1
                   /\ smOutcome = childOutcomes[Len(childOutcomes)]

\* a call ran both children and returned the failure of the second
C39_Witness ==
  /\ SMReturned
  /\ visited = <<name1_, name2_>>
  /\ childOutcomes = <<success, failure>>
  /\ smOutcome = failure
  /\ calls = 1

=============================================================================
